---- MODULE Spec2Model ----
(***************************************************************************)
(* Verification model of vue-flow's drag session engine                    *)
(* (packages/core/src/composables/useDrag.ts) and of the graph element     *)
(* algebra of the graph utilities (removeElements, addEdge, updateEdge).   *)
(*                                                                         *)
(* The drag engine is the closure state of useDrag() plus the pieces of    *)
(* its environment it talks to: the store's node list, the d3-drag         *)
(* gesture that delivers start/drag/end events, and the host's animation   *)
(* frame queue.  Each handler is an operator from engine state to engine   *)
(* state, composed exactly as the handlers call each other; each action of *)
(* Next is one event delivered by the host's event loop.                   *)
(***************************************************************************)
EXTENDS Integers, Sequences, FiniteSets, TLC

(***************************************************************************)
(* Bounds of the model.                                                    *)
(***************************************************************************)
\* pointer positions (flow coordinates) are drawn from 0..MaxX x 0..MaxY
MaxX == 1
MaxY == 1
\* auto-pan may carry lastPos at most PanCap units outside the pointer grid
PanCap == 1
\* number of simultaneous touch points a touch event may report
MaxTouches == 2
\* pointer buttons are numbered 0..MaxButton
MaxButton == 3
\* an element collection an operation is applied to, and the one it returns,
\* hold at most MaxElems elements; the initial ones at most MaxInitElems
MaxElems == 4
MaxInitElems == 2

(***************************************************************************)
(* Program configuration.                                                  *)
(***************************************************************************)
\* snapGrid.value = [SnapGridX, SnapGridY]
SnapGridX == 2
SnapGridY == 1
\* nodeExtent.value = [[0, 0], [ExtentX, ExtentY]]
ExtentX == 1
ExtentY == 0
\* autoPanSpeed.value
AutoPanSpeed == 2
\* the non-zero value of nodeDragThreshold.value (the other one is 0)
DragThreshold == 1
\* vueFlowRef.value.getBoundingClientRect()
BoundsLeft == 1
BoundsWidth == 2
\* width of the border zone of the container in which auto-pan is active
AutoPanMargin == 1

nodeExtent == <<<<0, 0>>, <<ExtentX, ExtentY>>>>

\* the nodes of the store, in order, and the node this instance drags (params.id)
NodeIds == {"n1"}
NodeOrder == <<"n1">>
id == "n1"

VARIABLES
    \* ---- environment of useDrag
    attached,        \* the drag behaviour listens on the element (watch, !isDisabled && nodeEl)
    gesture,         \* the d3-drag gesture in flight: [kind, touches]
    nodeDragThreshold,
    snapToGrid,
    nodes,           \* the store's nodes: id -> position
    raf,             \* handles of the animation-frame tasks currently scheduled
    \* ---- closure state of useDrag
    dragging,
    dragItems,
    containerBounds,
    lastPos,
    mousePosition,
    dragEvent,
    dragStarted,
    autoPanId,
    autoPanStarted,
    \* ---- what the last step did, as seen by the callbacks' receiver
    step,            \* the handler the last step ran
    fired,           \* the callbacks the last step fired, in order
    writes,          \* the updateNodePositions calls of the last step, in order
    moved,           \* what updateNodes resolved in the last step
    panned,          \* the panBy calls of the last step: movement, zoom and outcome
    cbOpen,          \* a start callback fired and no stop callback since
    gCallbacks,      \* the callbacks fired since the last pointer-down
    downPos,         \* where the gesture in flight began, while its drag has not started
    pointer,         \* the pointer event of the last step, measured against downPos
    \* ---- the drag behaviour's filter
    filterEvent,     \* the pointer-down event handed to the filter
    filterVerdict,   \* "none" until the filter ran, then "accept" or "reject"
    \* ---- graph element algebra
    elements,        \* the collection the caller holds (the last returned one)
    inputAfter,      \* the array passed to the last call, as the call left it
    lastCall,        \* the last call and its arguments
    prevElements,    \* the collection the last call was applied to
    \* ---- graph queries
    connQuery,       \* the node and the collection handed to getOutgoers / getIncomers
    connResult,      \* what the query returned, once it ran
    chain,           \* a node and its ancestors, the node first, handed to calculateXYZPosition
    resolved,        \* the position calculateXYZPosition returned, once it ran
    insideQuery,     \* the nodes, rect, transform and flag handed to getNodesInside
    insideResult     \* the nodes getNodesInside returned, once it ran

dragVars == <<attached, gesture, nodeDragThreshold, snapToGrid, nodes, raf, dragging, dragItems,
              containerBounds, lastPos, mousePosition, dragEvent, dragStarted,
              autoPanId, autoPanStarted, step, fired, writes, moved, panned, cbOpen,
              gCallbacks,
              downPos, pointer>>
filterVars == <<filterEvent, filterVerdict>>
graphVars == <<elements, inputAfter, lastCall, prevElements>>
queryVars == <<connQuery, connResult, chain, resolved, insideQuery, insideResult>>
vars == <<dragVars, filterVars, graphVars, queryVars>>

(***************************************************************************)
(* Small helpers.                                                          *)
(***************************************************************************)
Min(a, b) == IF a < b THEN a ELSE b
Max(a, b) == IF a > b THEN a ELSE b

\* Math.round(n / g) for g > 0: halves round towards +infinity
MathRound(n, g) == (2 * n + g) \div (2 * g)

\* clamp(val, min, max)
clamp(val, min, max) == Min(Max(val, min), max)

\* clampPosition(position, extent)
clampPosition(position, extent) ==
    [x |-> clamp(position.x, extent[1][1], extent[2][1]),
     y |-> clamp(position.y, extent[1][2], extent[2][2])]

\* the snapping of pointToRendererPoint and of updateNodes
snapPosition(position, snap) ==
    IF snap
    THEN [x |-> SnapGridX * MathRound(position.x, SnapGridX),
          y |-> SnapGridY * MathRound(position.y, SnapGridY)]
    ELSE position

(***************************************************************************)
(* Values of the engine.                                                   *)
(***************************************************************************)
\* containerBounds: null, or the container's bounding rectangle
NullBounds == [null |-> TRUE, left |-> 0, width |-> 0]
ContainerRect == [null |-> FALSE, left |-> BoundsLeft, width |-> BoundsWidth]

\* no d3-drag gesture in flight
NoGesture == [kind |-> "none", touches |-> 0]

\* The engine state the handlers read and write: the closure variables of
\* useDrag, the store's nodes, the frame queue and the record of the step.
Engine ==
    [nodes |-> nodes, raf |-> raf, dragging |-> dragging, dragItems |-> dragItems,
     containerBounds |-> containerBounds, lastPos |-> lastPos,
     mousePosition |-> mousePosition, dragEvent |-> dragEvent,
     dragStarted |-> dragStarted, autoPanId |-> autoPanId,
     autoPanStarted |-> autoPanStarted,
     fired |-> <<>>, writes |-> <<>>, moved |-> <<>>, panned |-> <<>>,
     cbOpen |-> cbOpen, gCallbacks |-> gCallbacks, inGesture |-> gesture # NoGesture]

\* A callback is delivered: onStart, onDrag, onStop or onClick.  The record
\* keeps what the receiver knows at that moment: whether a start is still
\* waiting for its stop, whether a gesture is in flight and has had its
\* start, and which pointer event the callback carries.
Fire(s, cb, event) ==
    [s EXCEPT !.fired = Append(@, [cb |-> cb, open |-> s.cbOpen,
                                   own |-> s.inGesture /\ "start" \in s.gCallbacks,
                                   event |-> event]),
              !.cbOpen = IF cb = "start" THEN TRUE
                         ELSE IF cb = "stop" THEN FALSE ELSE @,
              !.gCallbacks = @ \cup {cb}]

\* the positions of the drag items, in order
ItemPositions(items) == [i \in DOMAIN items |-> items[i].position]

\* getEventPosition(event, bounds): event.clientX - (bounds?.left ?? 0)
getEventPosition(ev, bounds) ==
    [x |-> ev.clientX - (IF bounds.null THEN 0 ELSE bounds.left)]

\* getPointerPosition(event): the pointer in flow coordinates, and snapped
getPointerPosition(ev, env) ==
    LET snapped == snapPosition([x |-> ev.x, y |-> ev.y], snapToGrid)
    IN [x |-> ev.x, y |-> ev.y, xSnapped |-> snapped.x, ySnapped |-> snapped.y]

\* calcNextPosition(node, nextPosition, onError, nodeExtent, parent):
\* the candidate position clamped to the node's movement extent
calcNextPosition(n, nextPosition) == clampPosition(nextPosition, nodeExtent)

\* calcAutoPan(mousePosition, containerBounds, speed): the pan movement along
\* x; positive inside the left border zone, negative inside the right one
calcAutoPan(pos, bounds, speed) ==
    IF pos.x < AutoPanMargin THEN speed
    ELSE IF pos.x > bounds.width - AutoPanMargin THEN -speed
    ELSE 0

\* store.updateNodePositions(dragItems, changed, dragging): the items'
\* positions are written to the store's nodes and their dragging flag is
\* set to `isDragging`; the call is recorded with its flags
updateNodePositions(s, items, changed, isDragging) ==
    LET ids == {items[i].id : i \in DOMAIN items}
        itemOf(n) == CHOOSE i \in DOMAIN items : items[i].id = n
    IN [s EXCEPT !.nodes = [n \in NodeIds |->
                              IF n \in ids THEN items[itemOf(n)].position
                              ELSE s.nodes[n]],
                 !.writes = Append(@, [changed |-> changed, dragging |-> isDragging])]

\* getDragItems(nodes, nodesDraggable, pointerPos, getNode, id): the nodes
\* to move, each with its offset from the pointer.  Which nodes they are
\* (the dragged node and the other selected nodes, as far as draggable) is
\* decided by the store's selection and draggable flags: `picked`.
getDragItems(s, picked, pointerPos) ==
    LET isPicked(n) == n \in picked
        order == SelectSeq(NodeOrder, isPicked)
    IN [i \in 1..Len(order) |->
            [id |-> order[i], position |-> s.nodes[order[i]],
             distance |-> [x |-> pointerPos.x - s.nodes[order[i]].x,
                           y |-> pointerPos.y - s.nodes[order[i]].y]]]

(***************************************************************************)
(* The handlers of useDrag.  `env` holds the values of the store's         *)
(* reactive settings and of the viewport at the moment the handler runs.   *)
(***************************************************************************)
\* const updateNodes = ({ x, y }) => { ... }
updateNodes(s, pos, env) ==
    LET resolve(n) ==
            calcNextPosition(n, snapPosition([x |-> pos.x - n.distance.x,
                                              y |-> pos.y - n.distance.y],
                                             snapToGrid))
        newItems == [i \in DOMAIN s.dragItems |->
                        [s.dragItems[i] EXCEPT !.position = resolve(s.dragItems[i])]]
        hasChange == \E i \in DOMAIN s.dragItems :
                        \/ s.dragItems[i].position.x # newItems[i].position.x
                        \/ s.dragItems[i].position.y # newItems[i].position.y
        s1 == [s EXCEPT !.lastPos = [x |-> pos.x, y |-> pos.y],
                        !.dragItems = newItems]
        s2 == [updateNodePositions(s1, newItems, TRUE, TRUE) EXCEPT !.dragging = TRUE]
        s3 == IF s2.dragEvent # "null" THEN Fire(s2, "drag", s2.dragEvent) ELSE s2
        done == IF ~hasChange THEN s1 ELSE s3
    IN [done EXCEPT !.moved = Append(@,
            [changed |-> ItemPositions(s.dragItems) # ItemPositions(done.dragItems),
             wrote |-> Len(done.writes) > Len(s.writes),
             dragging |-> done.dragging,
             progress |-> Len(done.fired) > Len(s.fired)])]

\* requestAnimationFrame(autoPan): the handle of the newly scheduled task.
\* Handles are never reused; the model names a new one by the least number
\* that is neither scheduled nor remembered in autoPanId.
requestAnimationFrame(s) ==
    CHOOSE h \in 1..(Cardinality(s.raf) + 2) :
        /\ h \notin s.raf
        /\ h # s.autoPanId
        /\ \A k \in 1..(h - 1) : k \in s.raf \/ k = s.autoPanId

\* autoPan without the test of panBy's outcome: the position is applied again
\* whenever a pan movement was computed
autoPan_ignoresPanBy(s, env) ==
    IF s.containerBounds.null
    THEN s
    ELSE LET xMovement == calcAutoPan(s.mousePosition, s.containerBounds, AutoPanSpeed)
             nextPos == [x |-> s.lastPos.x - (xMovement \div env.zoom),
                         y |-> s.lastPos.y]
             asked == [s EXCEPT !.panned = Append(@, [movement |-> xMovement,
                                                      zoom |-> env.zoom,
                                                      took |-> env.panBy])]
             s1 == IF xMovement # 0 THEN updateNodes(asked, nextPos, env) ELSE s
             h == requestAnimationFrame(s1)
         IN [s1 EXCEPT !.autoPanId = h, !.raf = @ \cup {h}]

\* autoPan that does not keep the handle of the task it schedules
autoPan_dropsHandle(s, env) ==
    IF s.containerBounds.null
    THEN s
    ELSE LET xMovement == calcAutoPan(s.mousePosition, s.containerBounds, AutoPanSpeed)
             nextPos == [x |-> s.lastPos.x - (xMovement \div env.zoom),
                         y |-> s.lastPos.y]
             asked == [s EXCEPT !.panned = Append(@, [movement |-> xMovement,
                                                      zoom |-> env.zoom,
                                                      took |-> env.panBy])]
             s1 == IF xMovement # 0
                   THEN IF env.panBy THEN updateNodes(asked, nextPos, env) ELSE asked
                   ELSE s
             h == requestAnimationFrame(s1)
         IN [s1 EXCEPT !.raf = @ \cup {h}]

\* const autoPan = () => { ... }
autoPan(s, env) ==
    IF s.containerBounds.null
    THEN s
    ELSE LET xMovement == calcAutoPan(s.mousePosition, s.containerBounds, AutoPanSpeed)
             nextPos == [x |-> s.lastPos.x - (xMovement \div env.zoom),
                         y |-> s.lastPos.y]
             asked == [s EXCEPT !.panned = Append(@, [movement |-> xMovement,
                                                      zoom |-> env.zoom,
                                                      took |-> env.panBy])]
             s1 == IF xMovement # 0
                   THEN IF env.panBy THEN updateNodes(asked, nextPos, env) ELSE asked
                   ELSE s
             h == requestAnimationFrame(s1)
         IN [s1 EXCEPT !.autoPanId = h, !.raf = @ \cup {h}]

\* const startDrag = (event, nodeEl) => { ... }
\* (the selection it adjusts first is store state the engine reads only
\* through getDragItems, whose outcome is env.picked)
startDrag(s, ev, env) ==
    LET pointerPos == getPointerPosition(ev, env)
        s1 == [s EXCEPT !.dragStarted = TRUE,
                        !.lastPos = [x |-> pointerPos.x, y |-> pointerPos.y],
                        !.dragItems = getDragItems(s, env.picked, pointerPos)]
    IN IF Len(s1.dragItems) > 0 THEN Fire(s1, "start", "current") ELSE s1

\* const eventStart = (event, nodeEl) => { ... }
eventStart(s, ev, env) ==
    IF ev.type = "touchmove" /\ ev.touches > 1
    THEN s
    ELSE LET s1 == IF nodeDragThreshold = 0 THEN startDrag(s, ev, env) ELSE s
             pointerPos == getPointerPosition(ev, env)
         IN [s1 EXCEPT !.lastPos = [x |-> pointerPos.x, y |-> pointerPos.y],
                       !.containerBounds = ContainerRect,
                       !.mousePosition = getEventPosition(ev, ContainerRect)]

\* Math.sqrt(x * x + y * y) > threshold, on the squares
DistanceExceeds(x, y, threshold) == x * x + y * y > threshold * threshold

\* const eventDrag = (event, nodeEl) => { ... }
eventDrag(s, ev, env) ==
    LET pointerPos == getPointerPosition(ev, env)
        s1 == IF ~s.autoPanStarted /\ s.dragStarted /\ env.autoPanOnNodeDrag
              THEN autoPan([s EXCEPT !.autoPanStarted = TRUE], env)
              ELSE s
        s2 == IF ~s1.dragStarted
                 /\ DistanceExceeds(pointerPos.xSnapped - s1.lastPos.x,
                                    pointerPos.ySnapped - s1.lastPos.y,
                                    nodeDragThreshold)
              THEN startDrag(s1, ev, env)
              ELSE s1
    IN IF /\ (s2.lastPos.x # pointerPos.xSnapped \/ s2.lastPos.y # pointerPos.ySnapped)
          /\ Len(s2.dragItems) > 0
          /\ s2.dragStarted
       THEN updateNodes([s2 EXCEPT !.dragEvent = "current",
                                   !.mousePosition = getEventPosition(ev, s2.containerBounds)],
                        pointerPos, env)
       ELSE s2

\* eventEnd with the click test made strict (distance < threshold)
eventEnd_strictClick(s, ev, env) ==
    IF ~s.dragStarted
    THEN LET pointerPos == getPointerPosition(ev, env)
             x == pointerPos.xSnapped - s.lastPos.x
             y == pointerPos.ySnapped - s.lastPos.y
         IN IF x * x + y * y # 0
               /\ x * x + y * y < nodeDragThreshold * nodeDragThreshold
            THEN Fire(s, "click", "current")
            ELSE s
    ELSE LET s1 == [s EXCEPT !.dragging = FALSE,
                             !.autoPanStarted = FALSE,
                             !.dragStarted = FALSE,
                             !.raf = @ \ {s.autoPanId}]
         IN IF Len(s1.dragItems) > 0
            THEN Fire(updateNodePositions(s1, s1.dragItems, FALSE, FALSE),
                      "stop", "current")
            ELSE s1

\* eventEnd without cancelAnimationFrame(autoPanId)
eventEnd_noCancel(s, ev, env) ==
    IF ~s.dragStarted
    THEN LET pointerPos == getPointerPosition(ev, env)
             x == pointerPos.xSnapped - s.lastPos.x
             y == pointerPos.ySnapped - s.lastPos.y
         IN IF x * x + y * y # 0 /\ ~DistanceExceeds(x, y, nodeDragThreshold)
            THEN Fire(s, "click", "current")
            ELSE s
    ELSE LET s1 == [s EXCEPT !.dragging = FALSE,
                             !.autoPanStarted = FALSE,
                             !.dragStarted = FALSE]
         IN IF Len(s1.dragItems) > 0
            THEN Fire(updateNodePositions(s1, s1.dragItems, FALSE, FALSE),
                      "stop", "current")
            ELSE s1

\* const eventEnd = (event) => { ... }
eventEnd(s, ev, env) ==
    IF ~s.dragStarted
    THEN LET pointerPos == getPointerPosition(ev, env)
             x == pointerPos.xSnapped - s.lastPos.x
             y == pointerPos.ySnapped - s.lastPos.y
         IN IF x * x + y * y # 0 /\ ~DistanceExceeds(x, y, nodeDragThreshold)
            THEN Fire(s, "click", "current")
            ELSE s
    ELSE LET s1 == [s EXCEPT !.dragging = FALSE,
                             !.autoPanStarted = FALSE,
                             !.dragStarted = FALSE,
                             !.raf = @ \ {s.autoPanId}]
         IN IF Len(s1.dragItems) > 0
            THEN Fire(updateNodePositions(s1, s1.dragItems, FALSE, FALSE),
                      "stop", "current")
            ELSE s1

\* the drag behaviour's filter: .filter((event) => { ... })
dragFilter(f) ==
    /\ f.button = 0
    /\ \/ ~f.noDragClassName
       \/ /\ ~f.inNoDrag
          /\ (~f.dragHandle \/ f.inHandle)

(***************************************************************************)
(* The environment: pointer events, settings, animation frames.            *)
(***************************************************************************)
Positions == [x : 0..MaxX, y : 0..MaxY]
\* the client x of a pointer at flow position p, the viewport at rest
ClientX(p) == BoundsLeft + p.x

\* what the filter looks at: the event's button (0 is the primary one; an
\* event without a button, as a touch event, counts as 0: !undefined is
\* !0), whether the two selectors are configured and whether the event's
\* target matches them inside the node element (hasSelector)
FilterInputs == [button : 0..MaxButton, noDragClassName : BOOLEAN, dragHandle : BOOLEAN,
                 inNoDrag : BOOLEAN, inHandle : BOOLEAN]

\* The settings a handler may read.  A setting the handler does not read in
\* the state at hand is left at its default, so that it is not enumerated.
Settings(readsStart, readsAutoPan, readsPan) ==
    [picked : IF readsStart THEN {{}, {id}} ELSE {{}},
     autoPanOnNodeDrag : IF readsAutoPan THEN BOOLEAN ELSE {FALSE},
     zoom : IF readsPan THEN {1, 2} ELSE {1},
     panBy : IF readsPan THEN BOOLEAN ELSE {FALSE}]

\* autoPan, if called now, would compute a pan movement and so read the viewport
WouldPan ==
    /\ ~containerBounds.null
    /\ calcAutoPan(mousePosition, containerBounds, AutoPanSpeed) # 0

\* the pan bound of the model: lastPos stays within PanCap of the pointer grid
WithinPanCap(s) == s.lastPos.x \in (0 - PanCap)..(MaxX + PanCap)

\* the engine state `s` becomes the next state
Becomes(s, handler) ==
    /\ WithinPanCap(s)
    /\ nodes' = s.nodes
    /\ raf' = s.raf
    /\ dragging' = s.dragging
    /\ dragItems' = s.dragItems
    /\ containerBounds' = s.containerBounds
    /\ lastPos' = s.lastPos
    /\ mousePosition' = s.mousePosition
    /\ dragEvent' = s.dragEvent
    /\ dragStarted' = s.dragStarted
    /\ autoPanId' = s.autoPanId
    /\ autoPanStarted' = s.autoPanStarted
    /\ fired' = s.fired
    /\ writes' = s.writes
    /\ moved' = s.moved
    /\ panned' = s.panned
    /\ cbOpen' = s.cbOpen
    /\ gCallbacks' = s.gCallbacks
    /\ step' = handler

Origin == [x |-> 0, y |-> 0]
NoPointer == [pending |-> FALSE, travelled |-> 0, measured |-> 0]

\* squared Euclidean distance between two positions
Dist2(a, b) == (a.x - b.x) * (a.x - b.x) + (a.y - b.y) * (a.y - b.y)

\* The pointer event at p as the step's record: whether the engine had not
\* started the drag when it arrived and, if so, the squared distance the
\* pointer has travelled from the gesture's pointer-down and the squared
\* distance of the snapped p from that pointer-down.
Pointer(p) ==
    [pending |-> ~dragStarted,
     travelled |-> IF dragStarted THEN 0 ELSE Dist2(p, downPos),
     measured |-> IF dragStarted THEN 0 ELSE Dist2(snapPosition(p, snapToGrid), downPos)]

\* pointer-down on the element: d3-drag runs the filter and, when it accepts,
\* starts a gesture and dispatches "start".  A pointer event remembered from
\* an earlier gesture is from now on an old one.
PointerDown ==
    /\ attached
    /\ gesture = NoGesture
    /\ (\E f \in FilterInputs : dragFilter(f)) = TRUE
    /\ \E kind \in {"mouse", "touch"}, p \in Positions :
       \E touches \in (IF kind = "touch" THEN 1..MaxTouches ELSE {0}) :
       \E env \in Settings(nodeDragThreshold = 0, FALSE, FALSE) :
          LET ev == [type |-> IF kind = "touch" THEN "touchstart" ELSE "mousedown",
                     touches |-> touches, x |-> p.x, y |-> p.y, clientX |-> ClientX(p)]
              s == [Engine EXCEPT !.gCallbacks = {}, !.inGesture = TRUE,
                                  !.dragEvent = IF @ = "null" THEN "null" ELSE "old"]
          IN /\ Becomes(eventStart(s, ev, env), "eventStart")
             /\ gesture' = [kind |-> kind, touches |-> touches]
             /\ downPos' = IF dragStarted' THEN Origin ELSE p
             /\ pointer' = [pending |-> ~dragStarted, travelled |-> 0, measured |-> 0]
    /\ UNCHANGED <<attached, nodeDragThreshold, snapToGrid, filterVars, graphVars, queryVars>>

\* the pointer moves during a gesture: d3-drag dispatches "drag"
PointerMove ==
    /\ gesture # NoGesture
    /\ \E p \in Positions :
       \E env \in Settings(~dragStarted, ~autoPanStarted /\ dragStarted,
                            ~autoPanStarted /\ dragStarted /\ WouldPan) :
          LET ev == [type |-> IF gesture.kind = "touch" THEN "touchmove" ELSE "mousemove",
                     touches |-> gesture.touches, x |-> p.x, y |-> p.y, clientX |-> ClientX(p)]
          IN /\ Becomes(eventDrag(Engine, ev, env), "eventDrag")
             /\ pointer' = Pointer(p)
    /\ downPos' = IF dragStarted' THEN Origin ELSE downPos
    /\ UNCHANGED <<attached, gesture, nodeDragThreshold, snapToGrid, filterVars, graphVars, queryVars>>

\* the pointer is released: d3-drag dispatches "end" and the gesture is over
\* (eventEnd reads the event's position only while the drag has not started)
PointerUp ==
    /\ gesture # NoGesture
    /\ \E p \in (IF dragStarted THEN {Origin} ELSE Positions) :
       \E env \in Settings(FALSE, FALSE, FALSE) :
          LET ev == [type |-> IF gesture.kind = "touch" THEN "touchend" ELSE "mouseup",
                     touches |-> 0, x |-> p.x, y |-> p.y, clientX |-> ClientX(p)]
          IN /\ Becomes(eventEnd(Engine, ev, env), "eventEnd")
             /\ pointer' = Pointer(p)
    /\ gesture' = NoGesture
    /\ downPos' = Origin
    /\ UNCHANGED <<attached, nodeDragThreshold, snapToGrid, filterVars, graphVars, queryVars>>

\* the host runs a scheduled animation-frame task: autoPan
Frame ==
    /\ \E h \in raf :
       \E env \in Settings(FALSE, FALSE, WouldPan) :
          Becomes(autoPan([Engine EXCEPT !.raf = @ \ {h}], env), "autoPan")
    /\ pointer' = NoPointer
    /\ UNCHANGED <<attached, gesture, nodeDragThreshold, snapToGrid, downPos, filterVars, graphVars, queryVars>>

\* watch(): the interaction is disabled or the element goes away, and the
\* cleanup runs.  It removes the behaviour's listeners from the element: a
\* touch gesture, whose move and end listeners are on the element, is cut
\* off; a mouse gesture, whose listeners are on the window, goes on.
Detach ==
    /\ attached
    /\ attached' = FALSE
    /\ gesture' = IF gesture.kind = "touch" THEN NoGesture ELSE gesture
    /\ downPos' = IF gesture.kind = "touch" THEN Origin ELSE downPos
    /\ Becomes(Engine, "detach")
    /\ pointer' = NoPointer
    /\ UNCHANGED <<nodeDragThreshold, snapToGrid, filterVars, graphVars, queryVars>>

\* watch(): the interaction is enabled on an element again
Attach ==
    /\ ~attached
    /\ attached' = TRUE
    /\ Becomes(Engine, "attach")
    /\ pointer' = NoPointer
    /\ UNCHANGED <<gesture, nodeDragThreshold, snapToGrid, downPos, filterVars, graphVars, queryVars>>

InitDrag ==
    /\ attached = TRUE
    /\ gesture = NoGesture
    /\ nodeDragThreshold \in {0, DragThreshold}
    /\ snapToGrid \in BOOLEAN
    /\ nodes = [n \in NodeIds |-> [x |-> ExtentX, y |-> 0]]
    /\ raf = {}
    /\ dragging = FALSE
    /\ dragItems = <<>>
    /\ containerBounds = NullBounds
    /\ lastPos = Origin
    /\ mousePosition = [x |-> 0]
    /\ dragEvent = "null"
    /\ dragStarted = FALSE
    /\ autoPanId = 0
    /\ autoPanStarted = FALSE
    /\ step = "init"
    /\ fired = <<>>
    /\ writes = <<>>
    /\ moved = <<>>
    /\ panned = <<>>
    /\ cbOpen = FALSE
    /\ gCallbacks = {}
    /\ downPos = Origin
    /\ pointer = NoPointer

\* the drag engine as constructed, under its default settings
InitDragIdle == InitDrag /\ nodeDragThreshold = 0 /\ snapToGrid = FALSE

\* no pointer-down is at the filter
InitFilterIdle ==
    /\ filterEvent = [button |-> 0, noDragClassName |-> FALSE, dragHandle |-> FALSE,
                      inNoDrag |-> FALSE, inHandle |-> FALSE]
    /\ filterVerdict = "none"

\* no element collection is in use
InitGraphIdle ==
    /\ elements = <<>>
    /\ inputAfter = <<>>
    /\ lastCall = [op |-> "none"]
    /\ prevElements = <<>>

\* no query is being made
NotRun == [done |-> FALSE]

InitQueryIdle ==
    /\ connQuery = NotRun
    /\ connResult = NotRun
    /\ chain = <<>>
    /\ resolved = NotRun
    /\ insideQuery = NotRun
    /\ insideResult = NotRun

Init == InitDrag /\ InitFilterIdle /\ InitGraphIdle /\ InitQueryIdle

Next == PointerDown \/ PointerMove \/ PointerUp \/ Frame \/ Detach \/ Attach

Spec == Init /\ [][Next]_vars

(***************************************************************************)
(* The drag behaviour's filter, on its own: a pointer-down event arrives   *)
(* and the filter decides.                                                 *)
(***************************************************************************)
ApplyFilter ==
    /\ filterVerdict = "none"
    /\ filterVerdict' = IF dragFilter(filterEvent) THEN "accept" ELSE "reject"
    /\ UNCHANGED <<filterEvent, dragVars, graphVars, queryVars>>

InitFilter ==
    /\ filterEvent \in FilterInputs
    /\ filterVerdict = "none"
    /\ InitDragIdle
    /\ InitGraphIdle
    /\ InitQueryIdle

NextFilter == ApplyFilter

SpecFilter == InitFilter /\ [][NextFilter]_vars

(***************************************************************************)
(* The graph element algebra.  A node is a record with an id; an edge has  *)
(* an id, a source and a target (and handles); a connection is an edge     *)
(* without id.  An absent handle is null.                                  *)
(***************************************************************************)
null == "null"

Node(i) == [id |-> i]
Edge(i, s, t, sh, th) ==
    [id |-> i, source |-> s, target |-> t, sourceHandle |-> sh, targetHandle |-> th]
Connection(s, t, sh, th) ==
    [source |-> s, target |-> t, sourceHandle |-> sh, targetHandle |-> th]

\* isEdge(element): 'id' in element && 'source' in element && 'target' in element
isEdge(element) == {"id", "source", "target"} \subseteq DOMAIN element

\* isNode(element): 'id' in element && !isEdge(element)
isNode(element) == "id" \in DOMAIN element /\ ~isEdge(element)

\* !value for a string or null
Falsy(value) == value = "" \/ value = null

\* the array without its element at index i: elements.splice(i, 1)
Splice(arr, i) == [k \in 1..(Len(arr) - 1) |-> IF k < i THEN arr[k] ELSE arr[k + 1]]

\* shouldRemove of removeElements, for the ids to remove
shouldRemove(element, nodeIdsToRemove) ==
    LET target == IF isEdge(element) THEN element.target ELSE ""
        source == IF isEdge(element) THEN element.source ELSE ""
    IN \/ element.id \in nodeIdsToRemove
       \/ target \in nodeIdsToRemove
       \/ source \in nodeIdsToRemove

\* elements.forEach((element, i) => { if (shouldRemove(element)) elements.splice(i, 1) }):
\* forEach visits the indices below the initial length that the array still
\* has, so the element that follows a removed one is not visited
RECURSIVE forEachSplice(_, _, _, _)
forEachSplice(arr, i, initialLen, nodeIdsToRemove) ==
    IF i > initialLen \/ i > Len(arr)
    THEN arr
    ELSE IF shouldRemove(arr[i], nodeIdsToRemove)
         THEN forEachSplice(Splice(arr, i), i + 1, initialLen, nodeIdsToRemove)
         ELSE forEachSplice(arr, i + 1, initialLen, nodeIdsToRemove)

\* removeElements(elementsToRemove, elements): what it returns and what it
\* leaves in the array it was given
removeElements(elementsToRemove, elems) ==
    LET nodeIdsToRemove == {elementsToRemove[i].id : i \in DOMAIN elementsToRemove}
        spliced == forEachSplice(elems, 1, Len(elems), nodeIdsToRemove)
        keep(element) == ~shouldRemove(element, nodeIdsToRemove)
    IN [result |-> SelectSeq(spliced, keep), input |-> spliced]

\* getEdgeId(connection): a template string; a null handle prints as "null"
getEdgeId(connection) ==
    "vueflow__edge-" \o connection.source \o connection.sourceHandle
        \o "-" \o connection.target \o connection.targetHandle

\* connectionExists(edge, elements)
connectionExists(edge, elems) ==
    \E i \in DOMAIN elems :
        LET el == elems[i]
        IN /\ isEdge(el)
           /\ el.source = edge.source
           /\ el.target = edge.target
           /\ \/ el.sourceHandle = edge.sourceHandle
              \/ (Falsy(el.sourceHandle) /\ Falsy(edge.sourceHandle))
           /\ \/ el.targetHandle = edge.targetHandle
              \/ (Falsy(el.targetHandle) /\ Falsy(edge.targetHandle))

\* the edge addEdge makes of its parameter: a copy of an edge, or the
\* connection with the id getEdgeId derives
edgeOf(edgeParams) ==
    IF isEdge(edgeParams)
    THEN edgeParams
    ELSE Edge(getEdgeId(edgeParams), edgeParams.source, edgeParams.target,
              edgeParams.sourceHandle, edgeParams.targetHandle)

\* addEdge without the connectionExists test
addEdge_noExistsTest(edgeParams, elems) ==
    IF Falsy(edgeParams.source) \/ Falsy(edgeParams.target)
    THEN [result |-> elems, input |-> elems]
    ELSE LET edge == edgeOf(edgeParams)
             pushed == Append(elems, edge)
         IN [result |-> Append(pushed, edge), input |-> pushed]

\* addEdge(edgeParams, elements): elements.push(edge); return [...elements, edge]
addEdge(edgeParams, elems) ==
    IF Falsy(edgeParams.source) \/ Falsy(edgeParams.target)
    THEN [result |-> elems, input |-> elems]
    ELSE LET edge == edgeOf(edgeParams)
             pushed == Append(elems, edge)
         IN IF connectionExists(edge, elems)
            THEN [result |-> elems, input |-> elems]
            ELSE [result |-> Append(pushed, edge), input |-> pushed]

\* updateEdge without the test that the old edge was found: the new edge is
\* appended all the same
updateEdge_noFoundTest(oldEdge, newConnection, elems) ==
    LET found == {i \in DOMAIN elems : isEdge(elems[i]) /\ elems[i].id = oldEdge.id}
        edge == Edge(getEdgeId(newConnection), newConnection.source,
                     newConnection.target, newConnection.sourceHandle,
                     newConnection.targetHandle)
        keep(e) == e.id # oldEdge.id
    IN IF Falsy(newConnection.source) \/ Falsy(newConnection.target)
       THEN [result |-> elems, input |-> elems]
       ELSE IF found = {}
            THEN [result |-> Append(elems, edge), input |-> elems]
            ELSE LET index == CHOOSE i \in found : \A k \in found : i <= k
                     replaced == [elems EXCEPT ![index] = edge]
                 IN [result |-> Append(SelectSeq(replaced, keep), edge), input |-> replaced]

\* updateEdge(oldEdge, newConnection, elements)
updateEdge(oldEdge, newConnection, elems) ==
    LET found == {i \in DOMAIN elems : isEdge(elems[i]) /\ elems[i].id = oldEdge.id}
    IN IF Falsy(newConnection.source) \/ Falsy(newConnection.target) \/ found = {}
       THEN [result |-> elems, input |-> elems]
       ELSE LET index == CHOOSE i \in found : \A k \in found : i <= k
                edge == Edge(getEdgeId(newConnection), newConnection.source,
                             newConnection.target, newConnection.sourceHandle,
                             newConnection.targetHandle)
                replaced == [elems EXCEPT ![index] = edge]
                keep(e) == e.id # oldEdge.id
            IN [result |-> Append(SelectSeq(replaced, keep), edge), input |-> replaced]

(***************************************************************************)
(* The callers of the element algebra: each call is applied to the         *)
(* collection the previous call returned.                                  *)
(***************************************************************************)
\* the elements a caller starts from: two nodes, a node without a usable id,
\* an edge between the nodes and an edge whose id is also a node's id
InitElements ==
    {Node("a"), Node("b"), Node(""),
     Edge("e1", "a", "b", null, null), Edge("a", "b", "b", null, null)}

\* the connections a caller asks for; an empty source or target is a missing one
Connections ==
    {Connection("a", "b", null, null), Connection("a", "b", "x", null),
     Connection("b", "a", null, ""), Connection("b", "b", null, null),
     Connection("", "b", null, null), Connection("a", "", null, null)}

\* an edge that is in no collection
ForeignEdge == Edge("e9", "b", "a", null, null)

RECURSIVE SeqsUpTo(_, _)
SeqsUpTo(S, n) ==
    IF n = 0 THEN {<<>>}
    ELSE LET shorter == SeqsUpTo(S, n - 1)
         IN shorter \cup {Append(q, e) : q \in shorter, e \in S}

NoArgument == [none |-> TRUE]

\* the call before this one was the same call
Repeats(op, argument, params) ==
    /\ lastCall.op = op
    /\ lastCall.argument = argument
    /\ lastCall.params = params

\* the call is recorded; `again` says that it repeats the call before it on
\* the collection that call returned, `againAfterChange` that moreover that
\* call returned another collection than it was given
Called(op, argument, params, outcome) ==
    /\ Len(outcome.result) <= MaxElems
    /\ elements' = outcome.result
    /\ inputAfter' = outcome.input
    /\ prevElements' = elements
    /\ lastCall' = [op |-> op, argument |-> argument, params |-> params,
                    again |-> Repeats(op, argument, params),
                    againAfterChange |-> Repeats(op, argument, params)
                                         /\ elements # prevElements]
    /\ UNCHANGED <<dragVars, filterVars, queryVars>>

CallRemoveElements ==
    \E i \in DOMAIN elements :
        Called("removeElements", elements[i], NoArgument,
               removeElements(<<elements[i]>>, elements))

CallAddEdge ==
    /\ Len(elements) <= MaxElems
    /\ \E edgeParams \in Connections \cup {e \in InitElements : isEdge(e)} :
          Called("addEdge", NoArgument, edgeParams, addEdge(edgeParams, elements))

CallUpdateEdge ==
    \E oldEdge \in {elements[i] : i \in {k \in DOMAIN elements : isEdge(elements[k])}}
                     \cup {ForeignEdge} :
       \E newConnection \in Connections :
          Called("updateEdge", oldEdge, newConnection,
                 updateEdge(oldEdge, newConnection, elements))

InitGraph ==
    /\ elements \in SeqsUpTo(InitElements, MaxInitElems)
    /\ inputAfter = <<>>
    /\ lastCall = [op |-> "none", argument |-> NoArgument, params |-> NoArgument,
                   again |-> FALSE, againAfterChange |-> FALSE]
    /\ prevElements = <<>>
    /\ InitDragIdle
    /\ InitFilterIdle
    /\ InitQueryIdle

NextGraph == CallRemoveElements \/ CallAddEdge \/ CallUpdateEdge

SpecGraph == InitGraph /\ [][NextGraph]_vars

(***************************************************************************)
(* The neighbours of a node: getOutgoers and getIncomers are asked about a  *)
(* node and an element collection.                                         *)
(***************************************************************************)
MaxConnElems == 3

\* getConnectedElements(node, elements, dir)
getConnectedElements(node, elems, dir) ==
    IF ~isNode(node)
    THEN <<>>
    ELSE LET ids == {elems[i][dir] :
                        i \in {k \in DOMAIN elems :
                                  isEdge(elems[k]) /\ elems[k].source = node.id}}
             includes(e) == e.id \in ids
         IN SelectSeq(elems, includes)

getOutgoers(node, elems) == getConnectedElements(node, elems, "target")

getIncomers(node, elems) == getConnectedElements(node, elems, "source")

\* the elements a caller asks about: three nodes, edges between them, and an
\* edge whose id is also a node's id
ConnElements ==
    {Node("a"), Node("b"), Node("c"),
     Edge("e1", "a", "b", null, null), Edge("e2", "b", "a", null, null),
     Edge("e3", "b", "c", null, null), Edge("c", "a", "b", null, null)}

CallGetOutgoers ==
    /\ ~connResult.done
    /\ connResult' = [done |-> TRUE, dir |-> "outgoers",
                      result |-> getOutgoers(connQuery.node, connQuery.elements)]
    /\ UNCHANGED <<connQuery, chain, resolved, insideQuery, insideResult,
                   dragVars, filterVars, graphVars>>

CallGetIncomers ==
    /\ ~connResult.done
    /\ connResult' = [done |-> TRUE, dir |-> "incomers",
                      result |-> getIncomers(connQuery.node, connQuery.elements)]
    /\ UNCHANGED <<connQuery, chain, resolved, insideQuery, insideResult,
                   dragVars, filterVars, graphVars>>

InitConnected ==
    /\ connQuery \in [node : {e \in ConnElements : isNode(e)},
                      elements : SeqsUpTo(ConnElements, MaxConnElems)]
    /\ connResult = NotRun
    /\ chain = <<>>
    /\ resolved = NotRun
    /\ insideQuery = NotRun
    /\ insideResult = NotRun
    /\ InitDragIdle
    /\ InitFilterIdle
    /\ InitGraphIdle

NextConnected == CallGetOutgoers \/ CallGetIncomers

SpecConnected == InitConnected /\ [][NextConnected]_vars

(***************************************************************************)
(* The nested position of a node: calculateXYZPosition is asked about a     *)
(* node on a parent chain.  chain[1] is the node, chain[k + 1] the          *)
(* parentNode of chain[k]; the last node of the chain has no parentNode.    *)
(***************************************************************************)
MaxDepth == 3
MaxCoord == 1
MaxZ == 3

\* a graph node as the resolver reads it: position and computedPosition.z
ChainNodes == [position : [x : 0..MaxCoord, y : 0..MaxCoord], z : 0..MaxZ]

\* the position the caller hands in for the node: its own position and index
Seed(node) == [x |-> node.position.x, y |-> node.position.y, z |-> node.z]

\* calculateXYZPosition without the recursion: only the direct parent counts
calculateXYZPosition_parentOnly(ch, i, result) ==
    IF i = Len(ch)
    THEN result
    ELSE [x |-> result.x + ch[i + 1].position.x,
          y |-> result.y + ch[i + 1].position.y,
          z |-> IF ch[i + 1].z > ch[i].z THEN ch[i + 1].z + 1 ELSE ch[i].z]

\* calculateXYZPosition(node, result), node being chain[i]
RECURSIVE calculateXYZPosition(_, _, _)
calculateXYZPosition(ch, i, result) ==
    IF i = Len(ch)
    THEN result
    ELSE calculateXYZPosition(ch, i + 1,
             [x |-> result.x + ch[i + 1].position.x,
              y |-> result.y + ch[i + 1].position.y,
              z |-> IF ch[i + 1].z > ch[i].z THEN ch[i + 1].z + 1 ELSE ch[i].z])

CallCalculateXYZPosition ==
    /\ ~resolved.done
    /\ resolved' = [done |-> TRUE,
                    position |-> calculateXYZPosition(chain, 1, Seed(chain[1]))]
    /\ UNCHANGED <<chain, connQuery, connResult, insideQuery, insideResult,
                   dragVars, filterVars, graphVars>>

InitPosition ==
    /\ chain \in SeqsUpTo(ChainNodes, MaxDepth) \ {<<>>}
    /\ resolved = NotRun
    /\ connQuery = NotRun
    /\ connResult = NotRun
    /\ insideQuery = NotRun
    /\ insideResult = NotRun
    /\ InitDragIdle
    /\ InitFilterIdle
    /\ InitGraphIdle

NextPosition == CallCalculateXYZPosition

SpecPosition == InitPosition /\ [][NextPosition]_vars

(***************************************************************************)
(* The nodes inside a rect: getNodesInside is asked about nodes, a rect in  *)
(* screen coordinates and the viewport transform.  The transform divides    *)
(* by the zoom, so world lengths are kept as multiples of 1 / Unit and      *)
(* areas as multiples of 1 / (Unit * Unit).                                 *)
(***************************************************************************)
MaxInsideNodes == 1
MaxSide == 2
MaxRect == 2
MaxPan == 1

\* the zoom factors of the transform
Zooms == {1, 2}

\* world lengths are counted in halves, which every zoom factor yields exactly
Unit == 2

\* a graph node as the query reads it; dimensions that are not measured yet are
\* null (nodes are initialized with width and height = null)
InsideNodes ==
    {n \in [position : [x : 0..MaxCoord, y : {0}],
            dimensions : [measured : BOOLEAN, width : 0..MaxSide, height : 0..MaxSide],
            dragging : BOOLEAN,
            selectable : BOOLEAN] :
        ~n.dimensions.measured => (n.dimensions.width = 0 /\ n.dimensions.height = 0)}

\* rectToBox({ x, y, width, height })
rectToBox(rect) ==
    [x |-> rect.x, y |-> rect.y, x2 |-> rect.x + rect.width, y2 |-> rect.y + rect.height]

\* Math.ceil of an area counted in 1 / (Unit * Unit)
MathCeil(area) == (area + Unit * Unit - 1) \div (Unit * Unit)

\* getNodesInside(nodes, rect, [tx, ty, tScale], partially)
getNodesInside(ns, rect, transform, partially) ==
    LET rBox == rectToBox([x |-> ((rect.x - transform.tx) * Unit) \div transform.tScale,
                           y |-> ((rect.y - transform.ty) * Unit) \div transform.tScale,
                           width |-> (rect.width * Unit) \div transform.tScale,
                           height |-> (rect.height * Unit) \div transform.tScale])
        inside(node) ==
            IF ~node.selectable
            THEN FALSE
            ELSE LET nBox == rectToBox([x |-> node.position.x * Unit,
                                        y |-> node.position.y * Unit,
                                        width |-> node.dimensions.width * Unit,
                                        height |-> node.dimensions.height * Unit])
                     xOverlap == Max(0, Min(rBox.x2, nBox.x2) - Max(rBox.x, nBox.x))
                     yOverlap == Max(0, Min(rBox.y2, nBox.y2) - Max(rBox.y, nBox.y))
                     overlappingArea == MathCeil(xOverlap * yOverlap)
                     area == node.dimensions.width * node.dimensions.height
                 IN IF ~node.dimensions.measured \/ node.dragging
                    THEN TRUE
                    ELSE IF partially
                         THEN overlappingArea > 0
                         ELSE overlappingArea >= area
    IN SelectSeq(ns, inside)

CallGetNodesInside ==
    /\ ~insideResult.done
    /\ insideResult' = [done |-> TRUE,
                        nodes |-> getNodesInside(insideQuery.nodes, insideQuery.rect,
                                                 insideQuery.transform,
                                                 insideQuery.partially)]
    /\ UNCHANGED <<insideQuery, connQuery, connResult, chain, resolved,
                   dragVars, filterVars, graphVars>>

InitInside ==
    /\ insideQuery \in [nodes : SeqsUpTo(InsideNodes, MaxInsideNodes),
                        rect : [x : 0..MaxRect, y : {0},
                                width : 0..MaxRect, height : 0..MaxRect],
                        transform : [tx : 0..MaxPan, ty : {0}, tScale : Zooms],
                        partially : BOOLEAN]
    /\ insideResult = NotRun
    /\ connQuery = NotRun
    /\ connResult = NotRun
    /\ chain = <<>>
    /\ resolved = NotRun
    /\ InitDragIdle
    /\ InitFilterIdle
    /\ InitGraphIdle

NextInside == CallGetNodesInside

SpecInside == InitInside /\ [][NextInside]_vars

(***************************************************************************)
(* Properties of the drag engine.                                          *)
(***************************************************************************)
DragCallbacks == {"start", "drag", "stop"}

\* the callbacks of the last step, by name
FiredNames == [i \in DOMAIN fired |-> fired[i].cb]

\* C1: the drag callbacks of a gesture fire in the order start, progress*,
\* stop.  No start fires while an earlier start still waits for its stop, and
\* a progress or stop fires only in a gesture whose own start fired before.
C1_CallbackOrder ==
    \A i \in DOMAIN fired :
        /\ fired[i].cb = "start" => ~fired[i].open
        /\ fired[i].cb \in {"drag", "stop"} => fired[i].open /\ fired[i].own

\* C2: once the interaction is detached, and until it is attached again, no
\* auto-pan frame runs, no node position is written and no callback fires.
C2_QuietAfterDetach ==
    ~attached => (step # "autoPan" /\ fired = <<>> /\ writes = <<>>)

C4_TransitionAtThreshold ==
    /\ step = "eventStart" => (dragStarted <=> nodeDragThreshold = 0)
    /\ (step = "eventDrag" /\ pointer.pending)
         => (dragStarted <=> pointer.travelled > nodeDragThreshold * nodeDragThreshold)
    /\ (step \in {"eventStart", "eventDrag"} /\ pointer.pending /\ dragStarted
          /\ Len(dragItems) > 0)
         => (Len(fired) > 0 /\ fired[1].cb = "start")
    /\ (step = "eventDrag" /\ ~pointer.pending)
         => (\A i \in DOMAIN fired : fired[i].cb # "start")

\* C5: every position update writes the positions, sets the dragging flag
\* and fires the progress callback if and only if the resolved position of
\* some drag item differs from its previous one; otherwise it writes nothing
\* and fires nothing.
C5_UpdateIffChanged ==
    \A i \in DOMAIN moved :
        /\ moved[i].changed => (moved[i].wrote /\ moved[i].dragging /\ moved[i].progress)
        /\ ~moved[i].changed => (~moved[i].wrote /\ ~moved[i].progress)

\* C6: a pointer-up that ends a gesture in Dragging clears the dragging flag,
\* leaves no animation-frame task scheduled, commits the positions of the
\* drag items with the dragging flag cleared and fires the stop callback
\* exactly once (both when the drag-item set is not empty); the engine is
\* back in Idle: no drag started, no auto-pan started, no gesture in flight.
C6_EndOfDrag ==
    (step = "eventEnd" /\ ~pointer.pending)
    => /\ ~dragging /\ ~dragStarted /\ ~autoPanStarted
       /\ raf = {}
       /\ gesture = NoGesture
       /\ IF Len(dragItems) > 0
          THEN /\ FiredNames = <<"stop">>
               /\ writes = <<[changed |-> FALSE, dragging |-> FALSE]>>
               /\ ~cbOpen
          ELSE fired = <<>> /\ writes = <<>>

\* a drag that moved its node under a running auto-pan loop has just ended
C6_Witness ==
    /\ step = "eventEnd"
    /\ ~pointer.pending
    /\ FiredNames = <<"stop">>
    /\ "drag" \in gCallbacks
    /\ autoPanId # 0
    /\ raf = {}

\* C7: a gesture whose start event carries more than one touch point is not
\* started: while it is in flight the engine is not Dragging, no drag
\* callback fires and no node position is written.
C7_MultiTouchIgnored ==
    gesture.touches > 1
    => /\ ~dragStarted
       /\ \A i \in DOMAIN fired : fired[i].cb \notin DragCallbacks
       /\ writes = <<>>

(***************************************************************************)
(* Properties of the filter.                                               *)
(***************************************************************************)
\* C8: the filter accepts a pointer-down if and only if it comes from the
\* primary button, does not start on the no-drag region and, when a drag
\* handle is configured, starts on that handle, whether or not a no-drag
\* class name is configured.
C8_FilterAccepts ==
    filterVerdict # "none"
    => (filterVerdict = "accept"
        <=> /\ filterEvent.button = 0
            /\ ~(filterEvent.noDragClassName /\ filterEvent.inNoDrag)
            /\ (filterEvent.dragHandle => filterEvent.inHandle))

(***************************************************************************)
(* Properties of the element algebra.                                      *)
(***************************************************************************)
\* the number of times e occurs in the collection
Count(e, elems) == Cardinality({i \in DOMAIN elems : elems[i] = e})

\* the same elements with the same multiplicities
SameCollection(a, b) ==
    \A e \in {a[i] : i \in DOMAIN a} \cup {b[i] : i \in DOMAIN b} : Count(e, a) = Count(e, b)

\* the edge's source or target is the id
Incident(element, nodeId) ==
    isEdge(element) /\ (element.source = nodeId \/ element.target = nodeId)

\* the last call was removeElements([nodeA], elements) for a node nodeA of the collection
RemovedNode == lastCall.op = "removeElements" /\ isNode(lastCall.argument)

\* C9: removeElements([nodeA], elements) returns exactly the
\* elements of the input that are neither nodeA nor an edge whose source or
\* target is nodeA's id, in their order and unmodified.
C9_RemoveNode ==
    RemovedNode
    => LET nodeA == lastCall.argument
           survives(e) == e # nodeA /\ ~Incident(e, nodeA.id)
       IN elements = SelectSeq(prevElements, survives)

\* C10: addEdge is idempotent: addEdge with a connection that has a source
\* and a target, applied to the collection that addEdge with the same
\* connection returned, returns a collection with the same elements in the
\* same multiplicities.
C10_AddEdgeIdempotent ==
    (/\ lastCall.op = "addEdge"
     /\ lastCall.again
     /\ ~Falsy(lastCall.params.source)
     /\ ~Falsy(lastCall.params.target))
    => SameCollection(elements, prevElements)

\* addEdge added an edge and was called again with the same connection
C10_Witness ==
    /\ lastCall.op = "addEdge"
    /\ lastCall.againAfterChange
    /\ ~Falsy(lastCall.params.source)
    /\ ~Falsy(lastCall.params.target)
    /\ Count(edgeOf(lastCall.params), elements) > 0

\* the same source, target and handles; a handle absent on both sides is the same
SameConnection(a, b) ==
    /\ a.source = b.source
    /\ a.target = b.target
    /\ (a.sourceHandle = b.sourceHandle \/ (Falsy(a.sourceHandle) /\ Falsy(b.sourceHandle)))
    /\ (a.targetHandle = b.targetHandle \/ (Falsy(a.targetHandle) /\ Falsy(b.targetHandle)))

\* the last call was addEdge with a connection that has a source and a target
AddedEdge ==
    /\ lastCall.op = "addEdge"
    /\ ~Falsy(lastCall.params.source)
    /\ ~Falsy(lastCall.params.target)

\* C11: when the collection holds an edge with the same connection, whatever
\* its id, addEdge returns the collection as it is; otherwise it returns the
\* collection with the new edge appended exactly once, one element more.
C11_AddEdgeAppendsOnce ==
    AddedEdge
    => IF \E i \in DOMAIN prevElements :
             isEdge(prevElements[i]) /\ SameConnection(prevElements[i], lastCall.params)
       THEN elements = prevElements
       ELSE /\ elements = Append(prevElements, edgeOf(lastCall.params))
            /\ Len(elements) = Len(prevElements) + 1

\* the edges of the collection, by position
EdgesOf(elems) == {i \in DOMAIN elems : isEdge(elems[i])}

\* the last call was updateEdge with an edge of the collection and a new
\* connection that has a source and a target; no other edge of the collection
\* had the old edge's id or the new connection
UpdatedEdge ==
    /\ lastCall.op = "updateEdge"
    /\ ~Falsy(lastCall.params.source)
    /\ ~Falsy(lastCall.params.target)
    /\ Cardinality({i \in EdgesOf(prevElements) :
                       prevElements[i].id = lastCall.argument.id}) = 1
    /\ \A i \in EdgesOf(prevElements) :
          SameConnection(prevElements[i], lastCall.params)
          => prevElements[i].id = lastCall.argument.id

\* the collection holds no edge with the old id unless the new id is the same,
\* and exactly one edge with the new connection
UpdatedOnce(elems) ==
    /\ getEdgeId(lastCall.params) # lastCall.argument.id
       => \A i \in EdgesOf(elems) : elems[i].id # lastCall.argument.id
    /\ Cardinality({i \in EdgesOf(elems) : SameConnection(elems[i], lastCall.params)}) = 1

\* C12: after updateEdge with an edge of the collection and a new connection
\* that has a source and a target, the returned collection and the collection
\* passed in hold no edge with the old id (unless the new id is the same) and
\* exactly one edge with the new connection: never the old and the new edge
\* together, never the new edge twice.
C12_UpdateEdgeReplaces ==
    UpdatedEdge => UpdatedOnce(elements) /\ UpdatedOnce(inputAfter)

\* the last call was refused: addEdge or updateEdge with a connection that
\* lacks a source or a target, or updateEdge with an old edge whose id is the
\* id of no edge of the collection
SoftFailure ==
    \/ /\ lastCall.op \in {"addEdge", "updateEdge"}
       /\ Falsy(lastCall.params.source) \/ Falsy(lastCall.params.target)
    \/ /\ lastCall.op = "updateEdge"
       /\ \A i \in EdgesOf(prevElements) : prevElements[i].id # lastCall.argument.id

\* C13: a refused call leaves the collection unchanged: the collection returned
\* has the elements of the input in the same order, and the collection passed
\* in is not modified.
C13_SoftFailureUnchanged ==
    SoftFailure => elements = prevElements /\ inputAfter = prevElements

\* updateEdge was refused for an unknown old edge, with a connection that has a
\* source and a target, on a collection that holds elements
C13_Witness ==
    /\ lastCall.op = "updateEdge"
    /\ ~Falsy(lastCall.params.source)
    /\ ~Falsy(lastCall.params.target)
    /\ \A i \in EdgesOf(prevElements) : prevElements[i].id # lastCall.argument.id
    /\ EdgesOf(prevElements) # {}
    /\ elements = prevElements

\* the nodes of the collection, by position
NodesOf(elems) == {i \in DOMAIN elems : isNode(elems[i])}

\* node ids are pairwise distinct and edge ids are pairwise distinct
UniqueIds(elems) ==
    /\ \A i, k \in NodesOf(elems) : elems[i].id = elems[k].id => i = k
    /\ \A i, k \in EdgesOf(elems) : elems[i].id = elems[k].id => i = k

\* C14: id uniqueness is kept by every call: when addEdge, updateEdge or
\* removeElements is given a collection whose node ids are pairwise distinct
\* and whose edge ids are pairwise distinct, so is the collection it returns.
C14_IdsStayUnique ==
    (lastCall.op # "none" /\ UniqueIds(prevElements)) => UniqueIds(elements)

\* the ids of the nodes of the collection
NodeIdsOf(elems) == {elems[i].id : i \in NodesOf(elems)}

\* every edge's source and target are ids of nodes of the collection
NoDanglingEdges(elems) ==
    \A i \in EdgesOf(elems) :
        elems[i].source \in NodeIdsOf(elems) /\ elems[i].target \in NodeIdsOf(elems)

\* C15: no dangling edges: when addEdge, updateEdge or removeElements is
\* given a collection in which every edge's source and target are ids of nodes
\* of the collection, the same is true of the collection it returns; so a
\* creation that references an absent node adds nothing and the removal of a
\* node takes the edges that reference it along.
C15_NoDanglingEdges ==
    (lastCall.op # "none" /\ NoDanglingEdges(prevElements)) => NoDanglingEdges(elements)

\* the nodes of the collection that an edge of the collection joins to the
\* node: as targets of edges from it (away) or as sources of edges to it
Neighbours(node, elems, away) ==
    LET joined(m) ==
            /\ isNode(m)
            /\ \E i \in EdgesOf(elems) :
                  IF away
                  THEN elems[i].source = node.id /\ elems[i].target = m.id
                  ELSE elems[i].source = m.id /\ elems[i].target = node.id
    IN SelectSeq(elems, joined)

\* C16: getOutgoers(n, elements) returns exactly the nodes m of the collection
\* for which the collection holds an edge from n to m, and getIncomers(n,
\* elements) exactly the nodes m for which it holds an edge from m to n.
C16_OutgoersIncomers ==
    connResult.done
    => connResult.result = Neighbours(connQuery.node, connQuery.elements,
                                      connResult.dir = "outgoers")

\* the stacking index of chain[i] as stated: its own index when it has no
\* parent, else the larger of its own index and its parent's index plus one
RECURSIVE StackingIndex(_, _)
StackingIndex(ch, i) ==
    IF i = Len(ch)
    THEN ch[i].z
    ELSE Max(StackingIndex(ch, i + 1) + 1, ch[i].z)

\* C17: the stacking index resolved for a node is the larger of its parent's
\* resolved index plus one and its own index, and its own index when it has
\* no parent; so it is greater than the parent's resolved index.
C17_StackingIndex ==
    resolved.done
    => /\ resolved.position.z = StackingIndex(chain, 1)
       /\ Len(chain) > 1 => resolved.position.z > StackingIndex(chain, 2)

\* the sum of the positions of chain[i] and its ancestors
RECURSIVE AbsolutePosition(_, _)
AbsolutePosition(ch, i) ==
    IF i = Len(ch)
    THEN ch[i].position
    ELSE LET parentAbs == AbsolutePosition(ch, i + 1)
         IN [x |-> parentAbs.x + ch[i].position.x, y |-> parentAbs.y + ch[i].position.y]

\* C18: the position resolved for a node, seeded with its own position, is its
\* position plus the absolute position of its parent: the sum of the
\* positions of the node and all its ancestors; its own position when it has
\* no parent.
C18_AbsolutePosition ==
    resolved.done
    => /\ resolved.position.x = AbsolutePosition(chain, 1).x
       /\ resolved.position.y = AbsolutePosition(chain, 1).y

\* a node with a parent and a grandparent, none of them at the origin, was resolved
C18_Witness ==
    /\ resolved.done
    /\ Len(chain) = 3
    /\ \A i \in DOMAIN chain : chain[i].position.x > 0 /\ chain[i].position.y > 0
    /\ resolved.position.x = 3

\* the query box in world coordinates and a node's box, in 1 / Unit
WorldBox ==
    rectToBox([x |-> ((insideQuery.rect.x - insideQuery.transform.tx) * Unit)
                         \div insideQuery.transform.tScale,
               y |-> ((insideQuery.rect.y - insideQuery.transform.ty) * Unit)
                         \div insideQuery.transform.tScale,
               width |-> (insideQuery.rect.width * Unit) \div insideQuery.transform.tScale,
               height |-> (insideQuery.rect.height * Unit) \div insideQuery.transform.tScale])

NodeBox(node) ==
    rectToBox([x |-> node.position.x * Unit, y |-> node.position.y * Unit,
               width |-> node.dimensions.width * Unit,
               height |-> node.dimensions.height * Unit])

\* the area the two boxes share, in 1 / (Unit * Unit)
OverlapArea(a, b) ==
    Max(0, Min(a.x2, b.x2) - Max(a.x, b.x)) * Max(0, Min(a.y2, b.y2) - Max(a.y, b.y))

\* the area of the box, in 1 / (Unit * Unit)
BoxArea(b) == (b.x2 - b.x) * (b.y2 - b.y)

\* a selectable node that is not dragged and whose dimensions are known
PlainNode(node) == node.selectable /\ ~node.dragging /\ node.dimensions.measured

\* C19: of the selectable, non-dragging nodes with known dimensions,
\* getNodesInside returns with partially = false exactly those whose overlap
\* with the query box in world coordinates equals their full area (the node
\* is fully contained), and with partially = true exactly those whose overlap
\* with it is positive.
C19_NodesInside ==
    insideResult.done
    => \A i \in DOMAIN insideQuery.nodes :
          LET node == insideQuery.nodes[i]
              returned == \E k \in DOMAIN insideResult.nodes : insideResult.nodes[k] = node
              overlap == OverlapArea(WorldBox, NodeBox(node))
          IN PlainNode(node)
             => (returned <=> IF insideQuery.partially
                              THEN overlap > 0
                              ELSE overlap = BoxArea(NodeBox(node)))

\* what an auto-pan frame does to the state it finds: with a pan movement
\* that the viewport carried out, the drag position is applied again at the
\* last position less the movement divided by the zoom; otherwise the last
\* position and the nodes stay as they are and no progress callback fires.
\* The task is scheduled again in every case.
FrameEffect ==
    LET xMovement == calcAutoPan(mousePosition, containerBounds, AutoPanSpeed)
        took == panned' # <<>> /\ panned'[1].took
    IN /\ xMovement # 0 <=> panned' # <<>>
       /\ moved' # <<>> <=> (xMovement # 0 /\ took)
       /\ IF xMovement # 0 /\ took
          THEN lastPos' = [x |-> lastPos.x - (xMovement \div panned'[1].zoom),
                           y |-> lastPos.y]
          ELSE /\ lastPos' = lastPos
               /\ nodes' = nodes
               /\ \A i \in DOMAIN fired' : fired'[i].cb # "drag"
       /\ autoPanId' \in raf'
       /\ autoPanId' \notin raf

\* C20: in an auto-pan frame while a drag has started, the drag position is
\* applied again only if the pan movement is not zero and panBy reported that
\* the pan took effect, and then at the last position less the movement
\* divided by the zoom; otherwise the frame leaves the last position and the
\* nodes unchanged and fires no progress callback.  The frame always
\* schedules the task again.
C20_AutoPanFrame == [][(step' = "autoPan" /\ dragStarted) => FrameEffect]_vars

\* a frame panned while a drag had started, at a zoom other than 1, and the drag
\* position was applied again
C20_Witness ==
    /\ step = "autoPan"
    /\ dragStarted
    /\ panned # <<>>
    /\ panned[1].took
    /\ panned[1].zoom = 2
    /\ moved # <<>>

\* C21: every progress callback, fired by a pointer-move or by an auto-pan
\* frame, carries a pointer event of the gesture in which it fires: none
\* carries the pointer event remembered from an earlier gesture.
C21_ProgressEventOfGesture ==
    \A i \in DOMAIN fired : fired[i].cb = "drag" => fired[i].event # "old"

\* C22: at most one auto-pan animation-frame task is scheduled at any time,
\* and when one is scheduled autoPanId is its handle, so that the cancel on
\* pointer-up cancels the live task.
C22_OneAutoPanTask ==
    /\ Cardinality(raf) <= 1
    /\ raf # {} => raf = {autoPanId}

\* in a second gesture, after frames have run, the task is scheduled again
C22_Witness ==
    /\ step = "autoPan"
    /\ raf = {autoPanId}
    /\ gesture # NoGesture
    /\ dragEvent = "old"

====
